---------------------------- MODULE Spec2Model ----------------------------
(***************************************************************************)
(* Model of AudioPreprocessor (src/__init__.py): the sliding-window noise  *)
(* floor estimator calculate_noise_floor and the per-sample amplitude      *)
(* jitter adjust_amplitude, called in sequence by preprocess or directly.  *)
(*                                                                         *)
(* Amplitudes are integers (a sample s stands for s/20, so 20 is full      *)
(* scale, 1.0).  Fractions of the configuration and every value derived    *)
(* by division are exact rationals <<numerator, denominator>> with a       *)
(* positive denominator, in lowest terms.  Floating-point rounding is not  *)
(* modelled; comparisons are the exact comparisons of the values.          *)
(***************************************************************************)
EXTENDS Integers, Sequences, FiniteSets, TLC

VARIABLES
    mode,               \* "preprocess": lines 83-86; "adjust": adjust_amplitude called directly
    data,               \* the signal, a sequence of samples
    sample_rate,        \* Hz
    opts,               \* the AudioPreprocessor fields (lines 23-27)
    pc,                 \* position of the call
    window_size,        \* line 37
    skip_size,          \* line 38
    max_amp,            \* line 40
    nfloor_amplitudes,  \* line 41, the accepted window maxima
    i,                  \* loop variable of line 43
    examined,           \* offsets of the windows sliced at line 44, in order
    stopped,            \* the break of line 49 was taken
    result,             \* <<nfloor_amp, max_amp>> once line 55 returned, else <<>>
    nfloor_arg,         \* adjust_amplitude's nfloor_amp parameter
    max_arg,            \* adjust_amplitude's max_amp parameter
    j,                  \* loop variable of line 61 (1-based)
    adjusted_data,      \* line 59, a sequence of rationals
    gains,              \* per processed sample: <<gain>> applied at line 76, or <<>>
    draws,              \* number of random.uniform calls made (line 72)
    divisions,          \* divisors of the divisions performed at line 68, in order
    err                 \* the exception that ended the call, or "none"

vars == <<mode, data, sample_rate, opts, pc, window_size, skip_size, max_amp,
          nfloor_amplitudes, i, examined, stopped, result, nfloor_arg, max_arg,
          j, adjusted_data, gains, draws, divisions, err>>

estVars == <<window_size, skip_size, max_amp, nfloor_amplitudes, i, examined,
             stopped, result>>
adjVars == <<nfloor_arg, max_arg, j, adjusted_data, gains, draws, divisions>>
inVars  == <<mode, data, sample_rate, opts>>

-----------------------------------------------------------------------------
(* Bounds and input sets *)

MaxLen == 3

Samples == {-1, 0, 1, 20}

Signals == UNION {[1..n -> Samples] : n \in 0..MaxLen}

SampleRates == {25, 50, 100}

\* defopts, lines 6-12: seconds are held in milliseconds
defopts ==
    [win_nfloor_ms          |-> 50,
     win_skip_ms            |-> 20,
     nfloor_max_frac        |-> <<1, 10>>,
     smooth_amp_frac        |-> <<1, 10>>,
     amplitude_adjust_range |-> <<(<<4, 5>>), (<<6, 5>>)>>]


\* the configurations an AudioPreprocessor is constructed with (lines 15-27):
\* the defaults, and the defaults with one or two fields overridden
OptsSet ==
    {defopts,
     [defopts EXCEPT !.win_nfloor_ms = 20],
     [defopts EXCEPT !.win_nfloor_ms = 20, !.win_skip_ms = 40],
     [defopts EXCEPT !.win_skip_ms = 40],
     [defopts EXCEPT !.win_nfloor_ms = 20, !.nfloor_max_frac = <<2, 1>>],
     [defopts EXCEPT !.smooth_amp_frac = <<0, 1>>],
     [defopts EXCEPT !.amplitude_adjust_range = <<(<<1, 2>>), (<<4, 5>>)>>],
     [defopts EXCEPT !.amplitude_adjust_range = <<(<<6, 5>>), (<<3, 2>>)>>]}

\* <<nfloor_amp, max_amp>> arguments of a direct call of adjust_amplitude
FloorMaxArgs == {<<0, 20>>, <<1, 20>>, <<1, 1>>, <<20, 1>>}

-----------------------------------------------------------------------------
(* Arithmetic *)

\* np.abs
Abs(x) == IF x < 0 THEN -x ELSE x

\* max / min of a non-empty set of integers
SetMax(S) == CHOOSE x \in S : \A y \in S : y <= x
SetMin(S) == CHOOSE x \in S : \A y \in S : x <= y

RECURSIVE Gcd(_, _)
Gcd(a, b) == IF b = 0 THEN a ELSE Gcd(b, a % b)

\* the rational n/d (d # 0) in lowest terms with a positive denominator
Rat(n, d) ==
    LET sn == IF d < 0 THEN -n ELSE n
        sd == Abs(d)
        g  == Gcd(Abs(sn), sd)
    IN  <<sn \div g, sd \div g>>

RatLE(a, b) == a[1] * b[2] <= b[1] * a[2]
RatLT(a, b) == a[1] * b[2] < b[1] * a[2]
RatAdd(a, b) == Rat(a[1] * b[2] + b[1] * a[2], a[2] * b[2])
RatSub(a, b) == Rat(a[1] * b[2] - b[1] * a[2], a[2] * b[2])
RatMul(a, b) == Rat(a[1] * b[1], a[2] * b[2])
RatMin(a, b) == IF RatLT(b, a) THEN b ELSE a
RatMax(a, b) == IF RatLT(a, b) THEN b ELSE a
One  == <<1, 1>>
Zero == <<0, 1>>

-----------------------------------------------------------------------------
(* calculate_noise_floor, lines 35-55 *)

\* int(seconds * sample_rate), lines 37-38: truncation
SamplesIn(ms, rate) == (ms * rate) \div 1000

\* variant: np.max(x), the absolute value left out
MaxAbs_NoAbs(x) == SetMax({x[k] : k \in 1..Len(x)})

\* np.max(np.abs(x)) of a non-empty sequence, lines 40 and 45
MaxAbs(x) == SetMax({Abs(x[k]) : k \in 1..Len(x)})

\* data[i:i + window_size], line 44: a slice stops at the end of the data
Window(d, off, ws) ==
    LET hi == IF off + ws > Len(d) THEN Len(d) ELSE off + ws
    IN  [k \in 1..(hi - off) |-> d[off + k]]

\* range(0, len(data) - window_size, skip_size) still yields off, line 43
InRange(off, len, ws) == off < len - ws

\* variant: the default is 0 rather than max_amp
MinOrDefault_Zero(acc, default) ==
    IF Len(acc) = 0 THEN 0 ELSE SetMin({acc[k] : k \in 1..Len(acc)})

\* min(nfloor_amplitudes, default=max_amp), line 48
MinOrDefault(acc, default) ==
    IF Len(acc) = 0 THEN default ELSE SetMin({acc[k] : k \in 1..Len(acc)})

\* variant: the minimum includes the window under test
AboveThreshold_InclCurrent(window_max, frac, mx, acc) ==
    window_max * frac[2]
        > frac[1] * (mx - SetMin({window_max} \cup {acc[k] : k \in 1..Len(acc)}))

\* the test of line 48, window_max > nfloor_max_frac * (max_amp - min(...))
AboveThreshold(window_max, frac, mx, acc) ==
    window_max * frac[2] > frac[1] * (mx - MinOrDefault(acc, mx))

\* line 54
NoiseFloorOf(acc) ==
    IF Len(acc) = 0 THEN 0 ELSE SetMin({acc[k] : k \in 1..Len(acc)})

-----------------------------------------------------------------------------
Init ==
    /\ opts \in OptsSet
    /\ mode = "none"
    /\ data = <<>>
    /\ sample_rate = 0
    /\ pc = "idle"
    /\ window_size = 0
    /\ skip_size = 0
    /\ max_amp = 0
    /\ nfloor_amplitudes = <<>>
    /\ i = 0
    /\ examined = <<>>
    /\ stopped = FALSE
    /\ result = <<>>
    /\ nfloor_arg = 0
    /\ max_arg = 0
    /\ j = 0
    /\ adjusted_data = <<>>
    /\ gains = <<>>
    /\ draws = 0
    /\ divisions = <<>>
    /\ err = "none"

\* lines 83, 37-43: preprocess calls calculate_noise_floor(data, sample_rate);
\* np.max raises ValueError on an empty array, range() on a zero step
CalculateNoiseFloor ==
    /\ pc = "idle"
    /\ \E d \in Signals, sr \in SampleRates :
          LET ws == SamplesIn(opts.win_nfloor_ms, sr)
              sk == SamplesIn(opts.win_skip_ms, sr)
          IN  /\ data' = d
              /\ sample_rate' = sr
              /\ mode' = "preprocess"
              /\ window_size' = ws
              /\ skip_size' = sk
              /\ IF Len(d) = 0
                    THEN /\ pc' = "error"
                         /\ err' = "ValueError"
                         /\ UNCHANGED max_amp
                    ELSE /\ max_amp' = MaxAbs(d)
                         /\ IF sk = 0
                               THEN pc' = "error" /\ err' = "ValueError"
                               ELSE pc' = "scan" /\ err' = "none"
    /\ nfloor_amplitudes' = <<>>
    /\ i' = 0
    /\ UNCHANGED <<opts, examined, stopped, result>>
    /\ UNCHANGED adjVars

\* one iteration of the loop of lines 43-51
ScanWindow ==
    /\ pc = "scan"
    /\ ~stopped
    /\ InRange(i, Len(data), window_size)
    /\ LET window == Window(data, i, window_size)
       IN  IF Len(window) = 0
              THEN \* np.max of an empty slice (window_size = 0)
                   /\ pc' = "error"
                   /\ err' = "ValueError"
                   /\ UNCHANGED <<nfloor_amplitudes, i, examined, stopped>>
              ELSE LET window_max == MaxAbs(window)
                   IN  /\ examined' = Append(examined, i)
                       /\ IF AboveThreshold(window_max, opts.nfloor_max_frac,
                                            max_amp, nfloor_amplitudes)
                             THEN /\ stopped' = TRUE
                                  /\ UNCHANGED <<nfloor_amplitudes, i>>
                             ELSE /\ nfloor_amplitudes' =
                                         Append(nfloor_amplitudes, window_max)
                                  /\ i' = i + skip_size
                                  /\ UNCHANGED stopped
                       /\ UNCHANGED <<pc, err>>
    /\ UNCHANGED <<window_size, skip_size, max_amp, result>>
    /\ UNCHANGED inVars
    /\ UNCHANGED adjVars

\* lines 54-55, after the loop ran out or broke
ReturnNoiseFloor ==
    /\ pc = "scan"
    /\ stopped \/ ~InRange(i, Len(data), window_size)
    /\ result' = <<NoiseFloorOf(nfloor_amplitudes), max_amp>>
    /\ pc' = "returned"
    /\ UNCHANGED <<window_size, skip_size, max_amp, nfloor_amplitudes, i,
                   examined, stopped, err>>
    /\ UNCHANGED inVars
    /\ UNCHANGED adjVars

-----------------------------------------------------------------------------
(* adjust_amplitude, lines 57-78 *)

\* np.copy(data), line 59
Copy(d) == [k \in 1..Len(d) |-> <<d[k], 1>>]

\* variant: a sample exactly at the floor counts as above it
AboveFloor_GE(abs_val, nf) == abs_val >= nf

\* the test of line 65
AboveFloor(abs_val, nf) == abs_val > nf

\* the divisor of line 68, smooth_amp_frac * (max_amp - nfloor_amp)
Divisor(saf, mx, nf) == Rat(saf[1] * (mx - nf), saf[2])

\* variant: the upper clamp left out
Clamp01_NoUpper(q) == RatMax(Zero, q)

\* max(0, min(1, q)), lines 66-69
Clamp01(q) == RatMax(Zero, RatMin(One, q))

\* lines 66-69.  The dividend is a numpy scalar and positive, so a zero divisor
\* gives +inf (with a RuntimeWarning) and min(1, inf) = 1.
SmoothTransitionFactor(abs_val, nf, mx, saf) ==
    LET den == Divisor(saf, mx, nf)
    IN  IF den[1] = 0
           THEN One
           ELSE Clamp01(Rat((abs_val - nf) * den[2], den[1]))

\* what a numpy division by zero does: numpy's default error state warns and
\* yields inf; under np.seterr(divide='raise') or warnings turned into errors
\* it raises
DivideByZeroOutcomes == {"inf", "raise"}

\* random.uniform(lo, hi), line 72: a value of [lo, hi].  The adjustment of
\* line 73 is affine in the draw, so the two end points stand for the interval.
Uniform(range) == {range[1], range[2]}

\* line 73
AmplitudeAdjustment(t, r) == RatAdd(RatSub(One, t), RatMul(t, r))

\* line 86: preprocess passes the estimator's result on
AdjustAmplitude ==
    /\ pc = "returned"
    /\ mode = "preprocess"
    /\ nfloor_arg' = result[1]
    /\ max_arg' = result[2]
    /\ adjusted_data' = Copy(data)
    /\ j' = 1
    /\ pc' = "adjust"
    /\ UNCHANGED <<gains, draws, divisions, err>>
    /\ UNCHANGED inVars
    /\ UNCHANGED estVars

\* adjust_amplitude(data, nfloor_amp, max_amp) called by itself, lines 57-59
AdjustAmplitudeDirect ==
    /\ pc = "idle"
    /\ \E d \in Signals, a \in FloorMaxArgs :
          /\ data' = d
          /\ nfloor_arg' = a[1]
          /\ max_arg' = a[2]
          /\ adjusted_data' = Copy(d)
    /\ mode' = "adjust"
    /\ j' = 1
    /\ pc' = "adjust"
    /\ UNCHANGED <<sample_rate, opts, gains, draws, divisions, err>>
    /\ UNCHANGED estVars

\* one iteration of the loop of lines 61-76
AdjustSample ==
    /\ pc = "adjust"
    /\ j <= Len(data)
    /\ LET abs_val == Abs(data[j])
           den     == Divisor(opts.smooth_amp_frac, max_arg, nfloor_arg)
           t       == SmoothTransitionFactor(abs_val, nfloor_arg, max_arg,
                                             opts.smooth_amp_frac)
       IN  IF ~AboveFloor(abs_val, nfloor_arg)
              THEN /\ gains' = Append(gains, <<>>)
                   /\ j' = j + 1
                   /\ UNCHANGED <<adjusted_data, draws, divisions, pc, err>>
              ELSE /\ divisions' = Append(divisions, den)
                   /\ \E outcome \in DivideByZeroOutcomes :
                         IF den[1] = 0 /\ outcome = "raise"
                            THEN /\ pc' = "error"
                                 /\ err' = "FloatingPointError"
                                 /\ UNCHANGED <<adjusted_data, gains, draws, j>>
                            ELSE \E r \in Uniform(opts.amplitude_adjust_range) :
                                    LET g == AmplitudeAdjustment(t, r)
                                    IN  /\ draws' = draws + 1
                                        /\ gains' = Append(gains, <<g>>)
                                        /\ adjusted_data' =
                                              [adjusted_data EXCEPT
                                                 ![j] = RatMul(<<data[j], 1>>, g)]
                                        /\ j' = j + 1
                                        /\ UNCHANGED <<pc, err>>
    /\ UNCHANGED <<nfloor_arg, max_arg>>
    /\ UNCHANGED inVars
    /\ UNCHANGED estVars

\* line 78
ReturnAdjusted ==
    /\ pc = "adjust"
    /\ j > Len(data)
    /\ pc' = "adjusted"
    /\ UNCHANGED <<err>>
    /\ UNCHANGED adjVars
    /\ UNCHANGED inVars
    /\ UNCHANGED estVars

Next ==
    \/ CalculateNoiseFloor
    \/ ScanWindow
    \/ ReturnNoiseFloor
    \/ AdjustAmplitude
    \/ AdjustAmplitudeDirect
    \/ AdjustSample
    \/ ReturnAdjusted

Spec == Init /\ [][Next]_vars

-----------------------------------------------------------------------------
(* Notions the properties are stated with *)

\* calculate_noise_floor has returned (the call may have gone on to line 86)
Returned == result # <<>>

\* adjust_amplitude is running or has ended
Adjusting == pc \in {"adjust", "adjusted"} \/ (pc = "error" /\ err = "FloatingPointError")

\* positive window and skip sizes (the data model's WindowParameters)
ValidWindow == window_size >= 1 /\ skip_size >= 1

AllZero(d) == \A k \in 1..Len(d) : d[k] = 0

\* the samples adjust_amplitude has finished with
Processed == 1..Len(gains)

\* d is n >= ws samples of magnitude q followed by samples of magnitude M
QuietLeadIn(d, ws, n, q, M) ==
    /\ ws >= 1 /\ ws <= n /\ n < Len(d)
    /\ q > 0 /\ q < M
    /\ \A k \in 1..n : Abs(d[k]) = q
    /\ \A k \in (n + 1)..Len(d) : Abs(d[k]) = M

\* the window offsets the data model prescribes: 0, skip, 2*skip, ... while
\* offset + window_size <= len
PrescribedOffsets(len, ws, sk) ==
    {off \in 0..len : off % sk = 0 /\ off + ws <= len}

\* the maxima of the windows the loop of line 43 goes through, in order
ScannedMaxima ==
    LET offs == {off \in 0..Len(data) :
                    off % skip_size = 0 /\ off < Len(data) - window_size}
    IN  [k \in 1..Cardinality(offs) |->
            SetMax({Abs(data[(k - 1) * skip_size + m]) : m \in 1..window_size})]

\* min(s, default = dflt) of a sequence
SeqMinOr(s, dflt) ==
    IF s = <<>> THEN dflt
    ELSE CHOOSE x \in {s[k] : k \in 1..Len(s)} : \A k \in 1..Len(s) : x <= s[k]

\* maximum w passes the threshold computed from the accepted values acc
Passes(w, acc) ==
    w * opts.nfloor_max_frac[2]
        <= opts.nfloor_max_frac[1] * (max_amp - SeqMinOr(acc, max_amp))

-----------------------------------------------------------------------------
(* C1 *)

\* C1: for a signal with a quiet lead-in of magnitude q > 0 that fills at least
\* one window, followed by a loud section of magnitude M with q <= 0.1 * M,
\* under the default configuration, calculate_noise_floor returns max_amp = M,
\* accepts at least one window, and returns noise_floor_amp = q.
C1_QuietLeadInGivesFloor ==
    (Returned /\ opts = defopts) =>
        \A n \in 1..Len(data), q \in 1..20, M \in 1..20 :
            (QuietLeadIn(data, window_size, n, q, M) /\ 10 * q <= M) =>
                /\ result[2] = M
                /\ Len(nfloor_amplitudes) >= 1
                /\ result[1] = q

-----------------------------------------------------------------------------
(* C2 *)

\* C2: in every state of a call of adjust_amplitude, each sample with
\* |data[k]| <= nfloor_amp has its output equal to its input, no gain was
\* applied to it, and the number of random draws made equals the number of
\* processed samples above the floor (none was made for a sample at or below).
C2_BelowFloorUntouched ==
    Adjusting =>
        /\ \A k \in 1..Len(data) :
              Abs(data[k]) <= nfloor_arg =>
                  /\ adjusted_data[k] = <<data[k], 1>>
                  /\ (k \in Processed => gains[k] = <<>>)
        /\ draws = Cardinality({k \in Processed : Abs(data[k]) > nfloor_arg})

C2_Witness ==
    /\ pc = "adjusted"
    /\ nfloor_arg > 0
    /\ \E k \in 1..Len(data) : data[k] # 0 /\ Abs(data[k]) <= nfloor_arg
    /\ \E k \in 1..Len(data) : adjusted_data[k] # <<data[k], 1>>

-----------------------------------------------------------------------------
(* C3 *)

\* C3: every gain applied by adjust_amplitude lies within
\* [min(1, lo), max(1, hi)] for amplitude_adjust_range = (lo, hi), and the
\* transition factor of every sample above the floor lies within [0, 1].
C3_GainBounded ==
    Adjusting =>
        \A k \in Processed :
            gains[k] # <<>> =>
                LET lo == opts.amplitude_adjust_range[1]
                    hi == opts.amplitude_adjust_range[2]
                    g  == gains[k][1]
                    t  == SmoothTransitionFactor(Abs(data[k]), nfloor_arg,
                                                 max_arg, opts.smooth_amp_frac)
                IN  /\ RatLE(RatMin(One, lo), g)
                    /\ RatLE(g, RatMax(One, hi))
                    /\ RatLE(Zero, t) /\ RatLE(t, One)

\* a gain strictly between no adjustment and the full draw was applied
C3_Witness ==
    /\ pc = "adjusted"
    /\ \E k \in Processed :
          /\ gains[k] # <<>>
          /\ gains[k][1] # One
          /\ gains[k][1] \notin Uniform(opts.amplitude_adjust_range)

-----------------------------------------------------------------------------
(* C4 *)

\* C4: whenever calculate_noise_floor has returned, 0 <= noise_floor_amp <=
\* max_amp and max_amp is the largest absolute sample value of the signal.
C4_FloorAtMostMax ==
    Returned =>
        /\ 0 <= result[1]
        /\ result[1] <= result[2]
        /\ \A k \in 1..Len(data) : Abs(data[k]) <= result[2]
        /\ \E k \in 1..Len(data) : Abs(data[k]) = result[2]
        /\ result[2] = max_amp

C4_Witness ==
    /\ pc = "returned"
    /\ result[2] > 0
    /\ Len(nfloor_amplitudes) >= 1
    /\ \E k \in 1..Len(data) : data[k] < 0

-----------------------------------------------------------------------------
(* C5 *)

\* C5: adjust_amplitude never divides by zero at line 68: every division it
\* performs has a nonzero divisor, and no error outcome is reached.
C5_NoDivisionByZero ==
    /\ \A k \in 1..Len(divisions) : divisions[k][1] # 0
    /\ err # "FloatingPointError"

-----------------------------------------------------------------------------
(* C6 *)

\* C6: on a signal with fewer samples than window_size, calculate_noise_floor
\* returns no result.
C6_ShortSignalNoResult ==
    (mode = "preprocess" /\ Len(data) < window_size) => ~Returned

-----------------------------------------------------------------------------
(* C7 *)

\* C7: for an all-zero signal of at least window_size samples (window and
\* skip sizes positive), calculate_noise_floor raises no error and returns
\* (0, 0), and adjust_amplitude called with that result leaves every sample
\* as it was, makes no random draw and performs no division.
C7_SilentSignalNoOp ==
    (mode = "preprocess" /\ ValidWindow /\ AllZero(data)
        /\ Len(data) >= window_size) =>
        /\ pc # "error" /\ err = "none"
        /\ pc # "scan" => Returned
        /\ Returned => result = <<0, 0>>
        /\ Adjusting =>
              /\ nfloor_arg = 0 /\ max_arg = 0
              /\ adjusted_data = [k \in 1..Len(data) |-> <<data[k], 1>>]
              /\ draws = 0
              /\ divisions = <<>>

C7_Witness ==
    /\ mode = "preprocess" /\ ValidWindow /\ AllZero(data)
    /\ Len(data) >= window_size
    /\ Len(nfloor_amplitudes) >= 1
    /\ pc = "adjusted"

-----------------------------------------------------------------------------
(* C8 *)

\* C8: when calculate_noise_floor returns without the early stop having
\* fired, the windows it examined are those at every offset k*skip_size with
\* offset + window_size <= len(signal), the last one included.
C8_EveryWindowExamined ==
    (Returned /\ ~stopped /\ ValidWindow) =>
        {examined[k] : k \in 1..Len(examined)}
            = PrescribedOffsets(Len(data), window_size, skip_size)

-----------------------------------------------------------------------------
(* C9 *)

\* C9: throughout the scan (window and skip sizes positive) the accepted list is a prefix of the maxima of the
\* windows scanned, each accepted value passes the threshold computed from the
\* values accepted before it, a stop is caused by the next window failing its
\* threshold, and at the return the list is the longest such prefix (the scan
\* stopped or every window was accepted) and the result is its minimum, or 0
\* when it is empty.
C9_AcceptedIsLongestPrefix ==
    (mode = "preprocess" /\ ValidWindow /\ (pc = "scan" \/ Returned)) =>
        LET acc == nfloor_amplitudes
            wm  == ScannedMaxima
            n   == Len(acc)
        IN  /\ n <= Len(wm)
            /\ \A k \in 1..n : acc[k] = wm[k]
            /\ \A k \in 1..n : Passes(acc[k], SubSeq(acc, 1, k - 1))
            /\ Len(examined) = n + (IF stopped THEN 1 ELSE 0)
            /\ stopped => (n < Len(wm) /\ ~Passes(wm[n + 1], acc))
            /\ Returned =>
                  /\ stopped \/ n = Len(wm)
                  /\ result[1] = SeqMinOr(acc, 0)

C9_Witness ==
    /\ pc = "returned"
    /\ stopped
    /\ Len(nfloor_amplitudes) >= 1
    /\ nfloor_amplitudes[1] = ScannedMaxima[1]

-----------------------------------------------------------------------------
(* C10 *)

\* C10: calculate_noise_floor always returns noise_floor_amp = 0: the accepted
\* list is empty or starts with 0; and adjust_amplitude, given the estimator's
\* result by preprocess, applies a gain to every nonzero sample it processes.
C10_FloorAlwaysZero ==
    /\ Len(nfloor_amplitudes) >= 1 => nfloor_amplitudes[1] = 0
    /\ Returned => result[1] = 0
    /\ (mode = "preprocess" /\ Adjusting) =>
          /\ nfloor_arg = 0
          /\ \A k \in Processed : data[k] # 0 => gains[k] # <<>>

C10_Witness ==
    /\ mode = "preprocess"
    /\ pc = "adjusted"
    /\ opts.nfloor_max_frac = <<2, 1>>
    /\ Len(nfloor_amplitudes) >= 2
    /\ nfloor_amplitudes[2] > 0
    /\ \E k \in Processed : gains[k] # <<>>

=============================================================================
